---- MODULE Spec2Model ----
(***************************************************************************)
(* State-machine model of the NovAtel OEM7 serial tools:                   *)
(*   tools/gps_init.py, tools/gps_run.py, tools/usb_gps_monitor.py.        *)
(* One run of one entry point is one behaviour.  Time is counted in ticks  *)
(* of 0.1 s and is relative to the start of the current bounded wait.      *)
(* A loop iteration (readiness check, read, test) is one step.             *)
(***************************************************************************)
EXTENDS Integers, Sequences, FiniteSets, TLC

VARIABLES
    prog,      \* entry point being run
    pc,        \* control position inside the entry point
    args,      \* parsed command line (and the contents of the command files)
    globs,     \* what glob.glob returns for each pattern (any order)
    pi,        \* detect_gps: index of the current port in iter_candidate_ports()
    bi,        \* detect_gps: index of the current baud in BAUD_MAP.keys()
    fd,        \* the local variable fd (0: none)
    openFds,   \* descriptors open in the process
    dev,       \* the device behind fd: bytes it still delivers, and its mode
    now,       \* ticks elapsed since the current wait computed its deadline
    buf,       \* captured / reply / buffer: bytes accumulated by the current wait
    cmds,      \* command sequence being sent
    ci,        \* index in cmds of the command being sent
    caller,    \* who called initialize_receiver: "detect_gps" or "main"
    phase,     \* detect_gps: "passive" or "active" sniff of the current probe
    matched,   \* detect_gps: the local variable matched
    sample,    \* detect_gps: the local variable sample
    result,    \* detect_gps: what it returned
    printed,   \* lines written to standard output by the stream loop
    outcome,   \* how the process ended
    hist       \* observations about the run (no effect on the program)

vars == <<prog, pc, args, globs, pi, bi, fd, openFds, dev, now, buf, cmds, ci,
          caller, phase, matched, sample, result, printed, outcome, hist>>

----------------------------------------------------------------------------
(* Bytes.  A byte string is a sequence of one-character strings.           *)

CR == "\r"
LF == "\n"

Contains(s, c) == \E i \in 1..Len(s) : s[i] = c

StartsWith(s, p) == Len(s) >= Len(p) /\ SubSeq(s, 1, Len(p)) = p

RECURSIVE SplitFrom(_, _, _, _)
SplitFrom(s, i, cur, acc) ==
    IF i > Len(s) THEN (IF cur = <<>> THEN acc ELSE Append(acc, cur))
    ELSE IF s[i] = LF THEN SplitFrom(s, i + 1, <<>>, Append(acc, cur))
    ELSE IF s[i] = CR THEN
        SplitFrom(s, IF i < Len(s) /\ s[i + 1] = LF THEN i + 2 ELSE i + 1,
                  <<>>, Append(acc, cur))
    ELSE SplitFrom(s, i + 1, Append(cur, s[i]), acc)

\* bytes.splitlines(): split at \n, \r and \r\n; no empty last line.
splitlines(s) == SplitFrom(s, 1, <<>>, <<>>)

RECURSIVE Concat(_)
Concat(ss) == IF ss = <<>> THEN <<>> ELSE Head(ss) \o Concat(Tail(ss))

----------------------------------------------------------------------------
(* Program constants.                                                      *)

BAUD_MAP == <<115200, 57600, 38400, 19200, 9600, 4800>>
TTY_PATTERNS == <<"/dev/ttyUSB", "/dev/ttyACM">>
NMEA_PREFIXES == { <<"$", "G", "P">>, <<"$", "G", "N">>, <<"$", "P", "Q">>,
                   <<"$", "P", "M">>, <<"$", "P", "N">> }
INIT_COMMANDS == << "UNLOGALL THISPORT", "LOG GPGGA ONTIME 1", "LOG GPGSA ONTIME 1",
                    "LOG GPGSV ONTIME 1", "LOG GPRMC ONTIME 1" >>

\* Timeouts and poll slices, in ticks of 0.1 s.
SNIFF_SLICE == 5
PASSIVE_TIMEOUT == 15
ACTIVE_TIMEOUT == 40
COMMAND_TIMEOUT == 15
COMMAND_SLICE == 2

STREAM_SLICE == 10
RESPONSE_SLICE == 1
DEFAULT_TIMEOUT == 15
DEFAULT_BAUD == 115200
DEFAULT_COMMANDS == << "UNLOGALL THISPORT", "LOG GPGGA ONTIME 1", "LOG GPGSA ONTIME 1",
                       "LOG GPGSV ONTIME 1", "LOG GPRMC ONTIME 1" >>

----------------------------------------------------------------------------
(* Bounds of the model and the inputs it draws.                            *)

MaxExtra == 1        \* --extra-command options on a command line
MaxFileCmds == 2     \* commands in one command file, when only the list is resolved

\* Sequences over S of length at most n.
RECURSIVE SeqsUpTo(_, _)
SeqsUpTo(S, n) ==
    IF n = 0 THEN { <<>> }
    ELSE LET shorter == SeqsUpTo(S, n - 1)
         IN  shorter \cup { Append(q, x) : q \in shorter, x \in S }

\* What glob.glob returns for /dev/ttyUSB* and for /dev/ttyACM*: the existing
\* nodes that match, in no particular order.  A node is named by its pattern
\* and the digit that follows it.
Globs == { << <<>>, <<>> >>,
           << <<>>, <<0>> >>,
           << <<0>>, <<0>> >>,
           << <<1, 0>>, <<>> >> }

\* Command strings a user or a command file may supply.
UserCommands == { "LOG GPRMC ONTIME 1", "SAVECONFIG" }

\* Chunks a read may return.
GGA == << "$", "G", "P", "G", "G", "A", CR, LF >>
RMC == << "$", "G", "P", "R", "M", "C", CR, LF >>
RMC_head == << "$", "G" >>
RMC_tail == << "P", "R", "M", "C", CR, LF >>
OK_cr == << "<", "O", "K", CR >>
LF_GGA == << LF, "$", "G", "P", "G", "G", "A", CR, LF >>
NOTICE == << "N", "O", "T", "I", "C", "E" >>
GGA_RMC == GGA \o RMC

\* What a device sends, as the sequence of chunks successive reads return.
Scripts == { <<>>, <<GGA>>, <<RMC_head, RMC_tail>>, <<OK_cr, LF_GGA>>, <<NOTICE>>,
             <<GGA_RMC>> }

\* What a device sends that is silent until it is told to log.
LazyScripts == { <<RMC>>, <<RMC_head, RMC_tail>> }

\* A device: the chunks it still delivers, which arrive as one burst, split over
\* consecutive reads; whether it is lazy (silent until UNLOGALL THISPORT reaches
\* it) and whether it is armed (talking); whether a burst is under way (the next
\* chunk is already there); and its mode:
\*   "ok"   it is readable exactly when a chunk arrives,
\*   "hup"  it is always readable and a read returns zero bytes,
\*   "eio"  it is always readable and a read raises OSError.
Devices ==
    [script : Scripts, lazy : {FALSE}, armed : {TRUE}, burst : {FALSE}, mode : {"ok"}]
    \cup [script : LazyScripts, lazy : {TRUE}, armed : {FALSE}, burst : {FALSE},
          mode : {"ok"}]
    \cup [script : { <<>> }, lazy : {FALSE}, armed : {TRUE}, burst : {FALSE},
          mode : {"hup"}]
    \cup [script : { <<>>, <<GGA>> }, lazy : {FALSE}, armed : {TRUE}, burst : {FALSE},
          mode : {"eio"}]

NoDevice == [script |-> <<>>, lazy |-> FALSE, armed |-> FALSE, burst |-> FALSE,
             mode |-> "ok"]

\* Ticks a readiness check may take before it reports the descriptor readable.
ReadyDelays(slice) == 0..slice

\* The device after a read took its next chunk.
Taken(dv) == [dv EXCEPT !.script = Tail(@), !.burst = (Tail(dv.script) # <<>>)]

\* The device after a flush dropped what had arrived and was not read.
Flushed(dv, dropped) ==
    IF dv.burst \/ (dropped /\ dv.armed /\ dv.mode = "ok" /\ dv.script # <<>>)
    THEN [dv EXCEPT !.script = <<>>, !.burst = FALSE]
    ELSE dv

\* One readiness check select.select([fd], [], [], slice) followed, when fd is
\* readable, by os.read(fd, 4096): every outcome the device allows.
\*   "idle"     not readable within the slice
\*   "chunk"    readable, the read returns bytes
\*   "empty"    readable, the read returns b""
\*   "readerr"  readable, the read raises OSError
\*   "selerr"   the readiness check raises OSError
\*   "intr"     KeyboardInterrupt arrives during the check or the read
Poll(slice) ==
    (IF dev.mode = "ok" /\ ~dev.burst
     THEN { [ev |-> "idle", d |-> slice, chunk |-> <<>>, dev |-> dev] }
     ELSE {})
    \cup
    (IF dev.mode = "ok" /\ dev.armed /\ dev.script # <<>>
     THEN { [ev |-> "chunk", d |-> d, chunk |-> Head(dev.script), dev |-> Taken(dev)] :
                d \in IF dev.burst THEN {0} ELSE ReadyDelays(slice) }
     ELSE {})
    \cup
    (IF dev.mode = "hup"
     THEN { [ev |-> "empty", d |-> d, chunk |-> <<>>, dev |-> dev] : d \in 0..1 }
     ELSE {})
    \cup
    (IF dev.mode = "eio"
     THEN { [ev |-> "readerr", d |-> d, chunk |-> <<>>, dev |-> nd] :
                d \in 0..1, nd \in { dev, [dev EXCEPT !.mode = "ok"] } }
     ELSE {})
    \cup
    { [ev |-> e, d |-> 0, chunk |-> <<>>, dev |-> dev] : e \in {"selerr", "intr"} }

----------------------------------------------------------------------------
(* Descriptors and exceptions.                                             *)

\* os.open returns the lowest descriptor that is free (0, 1, 2 are taken).
NewFd == CHOOSE n \in 3..(3 + Cardinality(openFds)) :
            n \notin openFds /\ \A m \in 3..(n - 1) : m \in openFds

\* os.close(f): the descriptor is released; closing one that is not open is
\* recorded in the history h.
os_close(h, f) == [h EXCEPT !.badClose = @ \/ (f \notin openFds)]

\* Variables no step changes after Init.
inputs == <<prog, args, globs>>

\* The process ends: with `closing`, os.close(fd) runs first.  The locals of
\* the program are gone; what it did to the descriptors and to the output stays.
Exit(how, closing, h) ==
    /\ pc' = "exit"
    /\ outcome' = how
    /\ openFds' = IF closing THEN openFds \ {fd} ELSE openFds
    /\ hist' = IF closing THEN os_close(h, fd) ELSE h
    /\ fd' = 0
    /\ dev' = NoDevice
    /\ pi' = 1
    /\ bi' = 1
    /\ now' = 0
    /\ buf' = <<>>
    /\ cmds' = <<>>
    /\ ci' = 1
    /\ caller' = "detect_gps"
    /\ phase' = "passive"
    /\ matched' = FALSE
    /\ sample' = <<>>
    /\ result' = "None"
    /\ UNCHANGED <<inputs, printed>>

\* The positions that lie inside a try ... finally: os.close(fd).
InTryFinally ==
    \/ pc \in {"stream_loop", "stream_output"}
    \/ prog = "gps_init" /\ pc \in {"send_commands", "read_response"}

\* An exception raised at the current position and caught nowhere: the finally
\* clause around the position, if there is one, closes fd; the process ends.
Propagate(exc) == Exit(exc, InTryFinally, hist)

\* A variant of WaitOver whose deadline lies twice as far away.
WaitOver_twice(t, timeout) == t >= 2 * timeout

\* while time.time() < deadline: the loop ends once t ticks reach the timeout.
WaitOver(t, timeout) == t >= timeout

\* A wait that returned after t ticks returned later than its deadline plus one
\* poll slice.
Late(t, timeout, slice) == t > timeout + slice

\* A device that was silent starts to talk when UNLOGALL THISPORT reaches it.
Receive(dv, cmd) ==
    IF cmd = "UNLOGALL THISPORT" THEN [dv EXCEPT !.armed = TRUE] ELSE dv

----------------------------------------------------------------------------
(* usb_gps_monitor.py                                                      *)

RECURSIVE Insert(_, _)
Insert(q, x) ==
    IF q = <<>> THEN <<x>>
    ELSE IF x <= Head(q) THEN <<x>> \o q
    ELSE <<Head(q)>> \o Insert(Tail(q), x)

RECURSIVE sorted(_)
sorted(q) == IF q = <<>> THEN <<>> ELSE Insert(sorted(Tail(q)), Head(q))

PortsOf(pattern, digits) == [i \in 1..Len(digits) |-> <<pattern, digits[i]>>]

\* A variant of iter_candidate_ports that yields the paths in the order glob
\* returned them.
iter_candidate_ports_unsorted(g) ==
    PortsOf(TTY_PATTERNS[1], g[1]) \o PortsOf(TTY_PATTERNS[2], g[2])

\* for pattern in TTY_PATTERNS: for path in sorted(glob.glob(pattern)): yield path
iter_candidate_ports(g) ==
    PortsOf(TTY_PATTERNS[1], sorted(g[1])) \o PortsOf(TTY_PATTERNS[2], sorted(g[2]))

\* A variant of SniffMatch that looks for a prefix at the start of the buffer
\* only.
SniffMatch_bufferStart(captured) ==
    \E prefix \in NMEA_PREFIXES : StartsWith(captured, prefix)

\* for line in captured.splitlines(): for prefix in NMEA_PREFIXES:
\*     if line.startswith(prefix): return True
SniffMatch(captured) ==
    \E i \in 1..Len(splitlines(captured)) :
        \E prefix \in NMEA_PREFIXES : StartsWith(splitlines(captured)[i], prefix)

\* send_command's test after a chunk: if b"\n" in reply: break
ReplyComplete(reply) == Contains(reply, LF)

\* A variant of NextCandidate that gives up the whole port.
NextCandidate_skipPort == bi' = 1 /\ pi' = pi + 1

\* A variant of NextCandidate that tries the same combination again.
NextCandidate_again == UNCHANGED <<pi, bi>>

\* The for loops of detect_gps move on: next baud, then next port.
NextCandidate ==
    IF bi < Len(BAUD_MAP)
    THEN bi' = bi + 1 /\ pi' = pi
    ELSE bi' = 1 /\ pi' = pi + 1

\* detect_gps, loop head: the candidates are exhausted (return None), or
\* open_serial(port, baud) is called: BAUD_MAP.get and os.open.
detect_gps ==
    /\ pc = "detect_gps"
    /\ LET ports == iter_candidate_ports(globs) IN
       IF pi > Len(ports)
       THEN /\ result' = "None"
            /\ pc' = "main"
            /\ UNCHANGED <<pi, bi, fd, openFds, dev, hist>>
       ELSE \E opened \in BOOLEAN :
            /\ hist' = [hist EXCEPT !.probed = Append(@, <<ports[pi], BAUD_MAP[bi]>>)]
            /\ IF opened
               THEN /\ fd' = NewFd
                    /\ openFds' = openFds \cup {NewFd}
                    /\ \E dv \in Devices : dev' = dv
                    /\ pc' = "configure_port"
                    /\ UNCHANGED <<pi, bi>>
               ELSE \* os.open raised OSError: open_serial returns None, continue
                    /\ NextCandidate
                    /\ UNCHANGED <<fd, openFds, dev, pc>>
            /\ UNCHANGED result
    /\ UNCHANGED <<inputs, now, buf, cmds, ci, caller, phase, matched, sample,
                   printed, outcome>>

\* open_serial, second half: configure_port(fd, baud_const); termios.error
\* closes the descriptor and open_serial returns None.
monitor_configure_port ==
    /\ pc = "configure_port" /\ prog = "usb_gps_monitor"
    /\ \E ok \in BOOLEAN :
        IF ok
        THEN /\ pc' = "sniff_for_gps"
             /\ phase' = "passive"
             /\ now' = 0
             /\ buf' = <<>>
             /\ hist' = [hist EXCEPT !.nInit = 0, !.matchPhase = "none", !.wlog = <<>>,
                                     !.lastWait = "none", !.afterMatch = 0,
                                     !.windows = <<"passive">>, !.got = <<>>]
             /\ UNCHANGED <<pi, bi, fd, openFds, dev>>
        ELSE /\ openFds' = openFds \ {fd}
             /\ hist' = os_close(hist, fd)
             /\ fd' = 0
             /\ dev' = NoDevice
             /\ NextCandidate
             /\ pc' = "detect_gps"
             /\ UNCHANGED <<phase, now, buf>>
    /\ UNCHANGED <<inputs, cmds, ci, caller, matched, sample, result, printed, outcome>>

SniffTimeout == IF phase = "passive" THEN PASSIVE_TIMEOUT ELSE ACTIVE_TIMEOUT

\* A variant of SniffReturn that hands back the verdict without the bytes.
SniffReturn_noBytes(m, captured, t, h) ==
    /\ matched' = m
    /\ sample' = <<>>
    /\ now' = 0
    /\ buf' = <<>>
    /\ hist' = [h EXCEPT
                  !.matchPhase = IF m THEN phase ELSE @,
                  !.late = @ \/ Late(t, SniffTimeout, SNIFF_SLICE)]
    /\ IF ~m /\ phase = "passive"
       THEN pc' = "initialize_receiver" /\ caller' = "detect_gps"
       ELSE pc' = "probe_result" /\ UNCHANGED caller
    /\ UNCHANGED <<inputs, pi, bi, fd, cmds, ci, phase, result, printed, openFds,
                   outcome>>

\* sniff_for_gps returns (m, captured) after t ticks to detect_gps, which either
\* reports the match, or initializes the receiver after an unmatched passive
\* window (h: the history so far).
SniffReturn(m, captured, t, h) ==
    /\ matched' = m
    /\ sample' = captured
    /\ now' = 0
    /\ buf' = <<>>
    /\ hist' = [h EXCEPT
                  !.matchPhase = IF m THEN phase ELSE @,
                  !.late = @ \/ Late(t, SniffTimeout, SNIFF_SLICE)]
    /\ IF ~m /\ phase = "passive"
       THEN pc' = "initialize_receiver" /\ caller' = "detect_gps"
       ELSE pc' = "probe_result" /\ UNCHANGED caller
    /\ UNCHANGED <<inputs, pi, bi, fd, cmds, ci, phase, result, printed, openFds,
                   outcome>>

\* sniff_for_gps: one iteration of its loop, or its return.
sniff_for_gps ==
    /\ pc = "sniff_for_gps"
    /\ IF WaitOver(now, SniffTimeout)
       THEN SniffReturn(FALSE, buf, now, hist) /\ UNCHANGED dev
       ELSE \E o \in Poll(SNIFF_SLICE) :
            CASE o.ev \in {"idle", "empty"} ->
                    /\ now' = now + o.d
                    /\ dev' = o.dev
                    /\ UNCHANGED <<inputs, pc, pi, bi, fd, openFds, buf, cmds, ci,
                                   caller, phase, matched, sample, result, printed,
                                   outcome, hist>>
              [] o.ev = "chunk" ->
                    /\ dev' = o.dev
                    /\ IF SniffMatch(buf \o o.chunk)
                       THEN SniffReturn(TRUE, buf \o o.chunk, now + o.d,
                                        [hist EXCEPT !.got = Append(@, o.chunk)])
                       ELSE /\ now' = now + o.d
                            /\ buf' = buf \o o.chunk
                            /\ hist' = [hist EXCEPT !.got = Append(@, o.chunk)]
                            /\ UNCHANGED <<inputs, pc, pi, bi, fd, openFds, cmds, ci,
                                           caller, phase, matched, sample, result,
                                           printed, outcome>>
              [] o.ev = "readerr" ->
                    SniffReturn(FALSE, buf, now + o.d, hist) /\ dev' = o.dev
              [] o.ev = "selerr" -> Propagate("OSError")
              [] o.ev = "intr" -> Propagate("KeyboardInterrupt")

\* initialize_receiver: termios.tcflush(fd, TCIOFLUSH), which drops what has
\* arrived and was not read, then the loop over INIT_COMMANDS starts.
initialize_receiver ==
    /\ pc = "initialize_receiver"
    /\ \E ok \in BOOLEAN :
        IF ok
        THEN /\ \E dropped \in BOOLEAN : dev' = Flushed(dev, dropped)
             /\ cmds' = INIT_COMMANDS
             /\ ci' = 1
             /\ pc' = "send_command"
             /\ hist' = [hist EXCEPT !.nInit = @ + 1, !.wlog = <<>>, !.lastWait = "none"]
             /\ UNCHANGED <<inputs, pi, bi, fd, openFds, now, buf, caller, phase,
                            matched, sample, result, printed, outcome>>
        ELSE Propagate("termios.error")

\* A variant of CommandDone that sends the command again when its reply wait
\* ran into the timeout.
CommandDone_resend(h) ==
    /\ now' = 0
    /\ buf' = <<>>
    /\ IF h.lastWait = "timeout" /\ Len(h.wlog) < Len(cmds) + 1
       THEN /\ ci' = ci
            /\ pc' = "send_command"
            /\ hist' = h
            /\ UNCHANGED phase
       ELSE IF ci < Len(cmds)
       THEN /\ ci' = ci + 1
            /\ pc' = "send_command"
            /\ hist' = h
            /\ UNCHANGED phase
       ELSE /\ ci' = ci
            /\ hist' = [h EXCEPT !.lastWait = "none"]
            /\ IF caller = "detect_gps"
               THEN pc' = "sniff_for_gps" /\ phase' = "active"
               ELSE pc' = "stream_sentences" /\ UNCHANGED phase
    /\ UNCHANGED <<inputs, pi, bi, fd, openFds, cmds, caller, matched, sample,
                   result, printed, outcome>>

\* After send_command returned (h: the history so far): the next command, or
\* initialize_receiver returns to detect_gps (second sniff) or to main
\* (stream_sentences).
CommandDone(h) ==
    /\ now' = 0
    /\ buf' = <<>>
    /\ IF ci < Len(cmds)
       THEN /\ ci' = ci + 1
            /\ pc' = "send_command"
            /\ hist' = h
            /\ UNCHANGED phase
       ELSE /\ ci' = ci
            /\ IF caller = "detect_gps"
               THEN /\ pc' = "sniff_for_gps"
                    /\ phase' = "active"
                    /\ hist' = [h EXCEPT !.lastWait = "none", !.got = <<>>,
                                         !.windows = Append(@, "active")]
               ELSE /\ pc' = "stream_sentences"
                    /\ hist' = [h EXCEPT !.lastWait = "none"]
                    /\ UNCHANGED phase
    /\ UNCHANGED <<inputs, pi, bi, fd, openFds, cmds, caller, matched, sample,
                   result, printed, outcome>>

\* send_command, first half: os.write(fd, payload); OSError is logged and the
\* function returns.
send_command ==
    /\ pc = "send_command"
    /\ \E w \in {"written", "OSError", "KeyboardInterrupt"} :
        CASE w = "written" ->
                /\ dev' = Receive(dev, cmds[ci])
                /\ hist' = [hist EXCEPT
                      !.wlog = Append(@, cmds[ci]),
                      !.lastWait = "waiting",
                      !.afterMatch = IF hist.matchPhase # "none" THEN @ + 1 ELSE @]
                /\ now' = 0
                /\ buf' = <<>>
                /\ pc' = "command_reply"
                /\ UNCHANGED <<inputs, pi, bi, fd, openFds, cmds, ci, caller, phase,
                               matched, sample, result, printed, outcome>>
          [] w = "OSError" ->
                /\ CommandDone([hist EXCEPT !.wlog = Append(@, cmds[ci]),
                                            !.lastWait = "write failed"])
                /\ UNCHANGED dev
          [] w = "KeyboardInterrupt" -> Propagate("KeyboardInterrupt")

\* The reply loop of send_command ends after t ticks for the reason given; the
\* reply is logged and send_command returns.
ReplyEnd(why, t) ==
    CommandDone([hist EXCEPT !.lastWait = why,
                             !.late = @ \/ Late(t, COMMAND_TIMEOUT, COMMAND_SLICE)])

\* send_command, second half: one iteration of the reply loop, or its end.
command_reply ==
    /\ pc = "command_reply"
    /\ IF WaitOver(now, COMMAND_TIMEOUT)
       THEN ReplyEnd("timeout", now) /\ UNCHANGED dev
       ELSE \E o \in Poll(COMMAND_SLICE) :
            CASE o.ev \in {"idle", "empty"} ->
                    /\ now' = now + o.d
                    /\ dev' = o.dev
                    /\ UNCHANGED <<inputs, pc, pi, bi, fd, openFds, buf, cmds, ci,
                                   caller, phase, matched, sample, result, printed,
                                   outcome, hist>>
              [] o.ev = "chunk" ->
                    /\ dev' = o.dev
                    /\ IF ReplyComplete(buf \o o.chunk)
                       THEN ReplyEnd("line", now + o.d)
                       ELSE /\ now' = now + o.d
                            /\ buf' = buf \o o.chunk
                            /\ UNCHANGED <<inputs, pc, pi, bi, fd, openFds, cmds, ci,
                                           caller, phase, matched, sample, result,
                                           printed, outcome, hist>>
              [] o.ev = "readerr" ->
                    ReplyEnd("read error", now + o.d) /\ dev' = o.dev
              [] o.ev = "selerr" -> Propagate("OSError")
              [] o.ev = "intr" -> Propagate("KeyboardInterrupt")

\* A variant of CloseUnmatched that abandons the descriptor without closing it.
CloseUnmatched_abandon == UNCHANGED <<openFds, hist>>

\* detect_gps, line 221: os.close(fd) after a probe that did not match.
CloseUnmatched ==
    /\ openFds' = openFds \ {fd}
    /\ hist' = os_close(hist, fd)

\* detect_gps after the probe: a match is reported and returned with the open
\* descriptor; otherwise os.close(fd) and the loops move on.
probe_result ==
    /\ pc = "probe_result"
    /\ IF matched
       THEN /\ result' = <<iter_candidate_ports(globs)[pi], BAUD_MAP[bi], fd>>
            /\ pc' = "main"
            /\ hist' = [hist EXCEPT !.matches = Append(@, Len(hist.probed))]
            /\ UNCHANGED <<pi, bi, fd, openFds, dev>>
       ELSE /\ CloseUnmatched
            /\ dev' = NoDevice
            /\ NextCandidate
            /\ pc' = "detect_gps"
            /\ UNCHANGED <<fd, result>>
    /\ UNCHANGED <<inputs, now, buf, cmds, ci, caller, phase, matched, sample,
                   printed, outcome>>

\* usb_gps_monitor.main after detect_gps returned.
monitor_main ==
    /\ pc = "main" /\ prog = "usb_gps_monitor"
    /\ IF result = "None"
       THEN Exit("return 1", FALSE, hist)
       ELSE /\ pc' = "initialize_receiver"
            /\ caller' = "main"
            /\ UNCHANGED <<inputs, pi, bi, fd, openFds, dev, now, buf, cmds, ci,
                           phase, matched, sample, result, printed, outcome, hist>>

\* stream_sentences, before its try: make_blocking(fd).
stream_sentences ==
    /\ pc = "stream_sentences"
    /\ \E r \in {"ok", "OSError", "KeyboardInterrupt"} :
        IF r = "ok"
        THEN /\ pc' = "stream_loop"
             /\ UNCHANGED <<inputs, pi, bi, fd, openFds, dev, now, buf, cmds, ci,
                            caller, phase, matched, sample, result, printed, outcome,
                            hist>>
        ELSE Propagate(r)

\* A variant of StreamEnds in which a read of zero bytes ends the loop as well.
StreamEnds_eof(ev) == ev \in {"readerr", "selerr", "intr", "empty"}

\* The outcomes of a tick that no stream loop handles inside while True: a
\* read or readiness error and KeyboardInterrupt leave the loop.
StreamEnds(ev) == ev \in {"readerr", "selerr", "intr"}

\* A stream loop is left on the event ev: finally: os.close(fd) runs;
\* KeyboardInterrupt is swallowed and main returns 0, an error goes on to the
\* caller of main.
StreamExit(ev) ==
    Exit(IF ev = "intr" THEN "return 0" ELSE "OSError", TRUE,
         [hist EXCEPT !.stop = [at |-> pc, ev |-> ev]])

\* The chunks the stream loop has read, with one more tick's data.
Streamed(data) ==
    [hist EXCEPT !.stream = IF data = <<>> THEN @ ELSE Append(@, data)]

\* The lines of a chunk that are not empty.
NonEmptyLines(data) == SelectSeq(splitlines(data), LAMBDA line : line # <<>>)

\* stream_sentences: one iteration of while True, or its end by an exception;
\* the finally clause closes the descriptor, KeyboardInterrupt is swallowed.
stream_loop ==
    /\ pc = "stream_loop"
    /\ \E o \in Poll(STREAM_SLICE) :
        IF StreamEnds(o.ev)
        THEN StreamExit(o.ev)
        ELSE /\ dev' = o.dev
             /\ printed' = printed \o NonEmptyLines(o.chunk)
             /\ hist' = Streamed(o.chunk)
             /\ UNCHANGED <<inputs, pc, pi, bi, fd, openFds, now, buf, cmds, ci,
                            caller, phase, matched, sample, result, outcome>>

----------------------------------------------------------------------------
(* gps_init.py and gps_run.py                                              *)

SUPPORTED_BAUDS == {115200, 57600, 38400, 19200, 9600, 4800}

\* A variant of Dedupe that drops every command it has already kept.
RECURSIVE Dedupe_everywhere(_, _)
Dedupe_everywhere(sequence, deduped) ==
    IF sequence = <<>> THEN deduped
    ELSE Dedupe_everywhere(Tail(sequence),
                IF Head(sequence) \in {deduped[i] : i \in 1..Len(deduped)}
                THEN deduped
                ELSE Append(deduped, Head(sequence)))

\* for cmd in sequence: if not deduped or deduped[-1] != cmd: deduped.append(cmd)
RECURSIVE Dedupe(_, _)
Dedupe(sequence, deduped) ==
    IF sequence = <<>> THEN deduped
    ELSE Dedupe(Tail(sequence),
                IF deduped = <<>> \/ deduped[Len(deduped)] # Head(sequence)
                THEN Append(deduped, Head(sequence))
                ELSE deduped)

\* load_command_sequence(paths, extra); files[i] is what parse_command_file
\* returns for paths[i].
load_command_sequence(files, extra) == Dedupe(Concat(files) \o extra, <<>>)

\* read_response's test after a chunk: if b"\n" in chunk or b"\r" in chunk: break
ResponseComplete(chunk) == Contains(chunk, LF) \/ Contains(chunk, CR)

\* gps_init.main up to open_serial: resolve the command sequence; stop when it
\* is empty or when --list-only is given (the sequence is printed).
gps_init_main ==
    /\ pc = "main" /\ prog = "gps_init"
    /\ LET commands == load_command_sequence(args.files, args.extra) IN
        IF commands = <<>>
        THEN Exit("return 1", FALSE, hist)
        ELSE IF args.list_only
        THEN Exit("return 0", FALSE, [hist EXCEPT !.listed = commands])
        ELSE /\ cmds' = commands
             /\ pc' = "open_serial"
             /\ UNCHANGED <<inputs, pi, bi, fd, openFds, dev, now, buf, ci, caller,
                            phase, matched, sample, result, printed, outcome, hist>>

\* gps_init.open_serial, first half: os.open; main turns OSError into return 1.
open_serial ==
    /\ pc = "open_serial"
    /\ \E opened \in BOOLEAN :
        IF opened
        THEN /\ fd' = NewFd
             /\ openFds' = openFds \cup {NewFd}
             /\ \E dv \in Devices : dev' = dv
             /\ pc' = "configure_port"
             /\ UNCHANGED <<inputs, pi, bi, now, buf, cmds, ci, caller, phase,
                            matched, sample, result, printed, outcome, hist>>
        ELSE Exit("return 1", FALSE, hist)

\* A variant of ConfigureFailed that raises again without closing.
ConfigureFailed_leak(how) == Exit(how, FALSE, hist)

\* open_serial's except Exception: os.close(fd); raise.  main ends with `how`.
ConfigureFailed(how) == Exit(how, TRUE, hist)

\* gps_init.open_serial, second half: configure_port(fd, baud).  Any exception
\* closes the descriptor and is raised again: main turns ValueError into
\* return 1 and does not catch termios.error.  Then main goes on: gps_init
\* sends its commands, gps_run sends DEFAULT_COMMANDS + extra unless --no-init.
configure_port ==
    /\ pc = "configure_port" /\ prog \in {"gps_init", "gps_run"}
    /\ \E r \in {"ok", "termios.error"} :
        IF args.baud \notin SUPPORTED_BAUDS
        THEN ConfigureFailed("return 1")
        ELSE IF r # "ok"
        THEN ConfigureFailed(r)
        ELSE /\ IF prog = "gps_run" /\ args.no_init
                THEN pc' = "stream_output" /\ UNCHANGED <<cmds, ci>>
                ELSE /\ pc' = "send_commands"
                     /\ ci' = 1
                     /\ cmds' = IF prog = "gps_run"
                                THEN DEFAULT_COMMANDS \o args.extra ELSE cmds
             /\ hist' = [hist EXCEPT !.wlog = <<>>, !.lastWait = "none"]
             /\ UNCHANGED <<inputs, pi, bi, fd, openFds, dev, now, buf, caller,
                            phase, matched, sample, result, printed, outcome>>

\* send_commands, first half of an iteration: os.write(fd, payload).
send_commands ==
    /\ pc = "send_commands"
    /\ \E w \in {"written", "OSError", "KeyboardInterrupt"} :
        IF w = "written"
        THEN /\ dev' = Receive(dev, cmds[ci])
             /\ hist' = [hist EXCEPT !.wlog = Append(@, cmds[ci]),
                                     !.lastWait = "waiting"]
             /\ now' = 0
             /\ buf' = <<>>
             /\ pc' = "read_response"
             /\ UNCHANGED <<inputs, pi, bi, fd, openFds, cmds, ci, caller, phase,
                            matched, sample, result, printed, outcome>>
        ELSE Propagate(w)

\* read_response returns after t ticks and leaves the device as dv;
\* send_commands logs the response, sleeps and takes the next command; after
\* the last one gps_init.main closes the descriptor and returns 0, and
\* gps_run.main goes on to its flush.
ResponseEnd(why, t, dv) ==
    LET h == [hist EXCEPT !.lastWait = why,
                          !.late = @ \/ Late(t, args.timeout, RESPONSE_SLICE)]
    IN  IF ci < Len(cmds)
        THEN /\ ci' = ci + 1
             /\ pc' = "send_commands"
             /\ hist' = h
             /\ now' = 0
             /\ buf' = <<>>
             /\ dev' = dv
             /\ UNCHANGED <<inputs, pi, bi, fd, openFds, cmds, caller, phase,
                            matched, sample, result, printed, outcome>>
        ELSE IF prog = "gps_init"
        THEN Exit("return 0", TRUE, h)
        ELSE /\ pc' = "tcflush"
             /\ hist' = [h EXCEPT !.lastWait = "none"]
             /\ now' = 0
             /\ buf' = <<>>
             /\ dev' = dv
             /\ UNCHANGED <<inputs, pi, bi, fd, openFds, cmds, ci, caller, phase,
                            matched, sample, result, printed, outcome>>

\* read_response: one iteration of its loop, or its end.
read_response ==
    /\ pc = "read_response"
    /\ IF WaitOver(now, args.timeout)
       THEN ResponseEnd("timeout", now, dev)
       ELSE \E o \in Poll(RESPONSE_SLICE) :
            CASE o.ev \in {"idle", "empty"} ->
                    /\ now' = now + o.d
                    /\ dev' = o.dev
                    /\ UNCHANGED <<inputs, pc, pi, bi, fd, openFds, buf, cmds, ci,
                                   caller, phase, matched, sample, result, printed,
                                   outcome, hist>>
              [] o.ev = "chunk" ->
                    IF ResponseComplete(o.chunk)
                    THEN ResponseEnd("line", now + o.d, o.dev)
                    ELSE /\ now' = now + o.d
                         /\ buf' = buf \o o.chunk
                         /\ dev' = o.dev
                         /\ UNCHANGED <<inputs, pc, pi, bi, fd, openFds, cmds, ci,
                                        caller, phase, matched, sample, result,
                                        printed, outcome, hist>>
              [] o.ev \in {"readerr", "selerr"} ->
                    Exit("OSError", InTryFinally,
                         [hist EXCEPT !.stop = [at |-> pc, ev |-> o.ev]])
              [] o.ev = "intr" -> Propagate("KeyboardInterrupt")

\* gps_run.main: termios.tcflush(fd, TCIFLUSH) before the stream loop.
tcflush ==
    /\ pc = "tcflush"
    /\ \E ok \in BOOLEAN :
        IF ok
        THEN /\ \E dropped \in BOOLEAN : dev' = Flushed(dev, dropped)
             /\ pc' = "stream_output"
             /\ UNCHANGED <<inputs, pi, bi, fd, openFds, now, buf, cmds, ci, caller,
                            phase, matched, sample, result, printed, outcome, hist>>
        ELSE Propagate("termios.error")

\* A variant of Shown that lets only lines beginning with "$" through.
Shown_dollarOnly(text, nmea_only) == ~nmea_only \/ StartsWith(text, <<"$">>)

\* if nmea_only and not text.startswith(("$", "<")): continue
Shown(text, nmea_only) ==
    ~nmea_only \/ StartsWith(text, <<"$">>) \/ StartsWith(text, <<"<">>)

\* stream_output: one iteration of while True, or its end by an exception;
\* the finally clause closes the descriptor, KeyboardInterrupt is swallowed.
stream_output ==
    /\ pc = "stream_output"
    /\ \E o \in Poll(STREAM_SLICE) :
        IF StreamEnds(o.ev)
        THEN StreamExit(o.ev)
        ELSE /\ dev' = o.dev
             /\ printed' = printed \o SelectSeq(NonEmptyLines(o.chunk),
                                       LAMBDA text : Shown(text, args.nmea_only))
             /\ hist' = Streamed(o.chunk)
             /\ UNCHANGED <<inputs, pc, pi, bi, fd, openFds, now, buf, cmds, ci,
                            caller, phase, matched, sample, result, outcome>>

----------------------------------------------------------------------------
(* The runs.                                                               *)

NoArgs == [files |-> <<>>, extra |-> <<>>, list_only |-> FALSE, no_init |-> FALSE,
           nmea_only |-> FALSE, baud |-> DEFAULT_BAUD, timeout |-> DEFAULT_TIMEOUT]

\* Baud rates a user may ask for: the default and one that is not supported.
UserBauds == {DEFAULT_BAUD, 14400}

Extras == SeqsUpTo(UserCommands, MaxExtra)

\* Contents of the two default command files in a complete run of gps_init.
RunFiles == { << <<>>, <<>> >>,
              << <<"UNLOGALL THISPORT">>, <<"SAVECONFIG">> >>,
              << <<"SAVECONFIG">>, <<"SAVECONFIG">> >> }

InitArgs(fileSets) ==
    { [NoArgs EXCEPT !.files = f, !.extra = e, !.list_only = l, !.baud = b] :
        f \in fileSets, e \in Extras, l \in BOOLEAN, b \in UserBauds }

RunArgs ==
    { [NoArgs EXCEPT !.extra = e, !.no_init = n, !.nmea_only = m, !.baud = b] :
        e \in Extras, n \in BOOLEAN, m \in BOOLEAN, b \in UserBauds }

NoHist == [wlog |-> <<>>, lastWait |-> "none", nInit |-> 0, matchPhase |-> "none",
           afterMatch |-> 0, probed |-> <<>>, matches |-> <<>>, badClose |-> FALSE,
           late |-> FALSE, listed |-> <<>>, windows |-> <<>>, got |-> <<>>,
           stream |-> <<>>,
           stop |-> [at |-> "none", ev |-> "none"]]

Start(p, a, g) ==
    /\ prog = p
    /\ args = a
    /\ globs = g
    /\ pc = CASE p = "usb_gps_monitor" -> "detect_gps"
              [] p = "gps_init" -> "main"
              [] p = "gps_run" -> "open_serial"
    /\ pi = 1
    /\ bi = 1
    /\ fd = 0
    /\ openFds = {}
    /\ dev = NoDevice
    /\ now = 0
    /\ buf = <<>>
    /\ cmds = <<>>
    /\ ci = 1
    /\ caller = "detect_gps"
    /\ phase = "passive"
    /\ matched = FALSE
    /\ sample = <<>>
    /\ result = "None"
    /\ printed = <<>>
    /\ outcome = "running"
    /\ hist = NoHist

Init ==
    \/ \E g \in Globs : Start("usb_gps_monitor", NoArgs, g)
    \/ \E a \in InitArgs(RunFiles) : Start("gps_init", a, << <<>>, <<>> >>)
    \/ \E a \in RunArgs : Start("gps_run", a, << <<>>, <<>> >>)

Next ==
    \/ detect_gps
    \/ monitor_configure_port
    \/ sniff_for_gps
    \/ initialize_receiver
    \/ send_command
    \/ command_reply
    \/ probe_result
    \/ monitor_main
    \/ stream_sentences
    \/ stream_loop
    \/ gps_init_main
    \/ open_serial
    \/ configure_port
    \/ send_commands
    \/ read_response
    \/ tcflush
    \/ stream_output

Spec == Init /\ [][Next]_vars

\* The process keeps running and its clock advances: a bounded wait that can
\* take a step eventually takes one that changes the state.
FairSpec ==
    /\ Spec
    /\ WF_vars(sniff_for_gps)
    /\ WF_vars(command_reply)
    /\ WF_vars(read_response)

\* The process is scheduled: as long as the program can take a step that
\* changes its state, it eventually takes one.
DiscoverySpec == Spec /\ WF_vars(Next)

\* load_command_sequence alone, over every content of two command files of at
\* most MaxFileCmds commands each and every list of extra commands.
LoadInit ==
    \E a \in InitArgs(SeqsUpTo(UserCommands, MaxFileCmds) \X SeqsUpTo(UserCommands, MaxFileCmds)) :
        Start("gps_init", a, << <<>>, <<>> >>)

LoadSpec == LoadInit /\ [][gps_init_main]_vars

----------------------------------------------------------------------------
(* Properties.                                                             *)

Ended == outcome # "running"

IsPrefix(p, q) == Len(p) <= Len(q) /\ SubSeq(q, 1, Len(p)) = p

\* C1: when a run of gps_init, gps_run or usb_gps_monitor has ended - by a
\* normal return, by an I/O error at any step, or by a user interrupt at any
\* step - every descriptor that was opened has been closed, and none was closed
\* twice.
C1_ClosedExactlyOnce == Ended => (openFds = {} /\ ~hist.badClose)

\* C2: once a link is classified as matched, no initialization command is
\* written to it afterwards: a link matched in the passive phase never gets an
\* initialization sequence, a link matched in the active phase got exactly one.
C2_NeverReinitialize ==
    /\ hist.afterMatch = 0
    /\ hist.matchPhase = "passive" => hist.nInit = 0
    /\ hist.matchPhase = "active" => hist.nInit = 1

\* C3: when the probe of a device that is silent until UNLOGALL THISPORT reaches
\* it, and that then sends one recognized sentence, is over and the probe has
\* read the whole sentence (wherever in the active phase it arrived), the probe
\* reports matched = true and one initialization sequence was sent.
C3_ActiveProbeMatches ==
    (pc = "probe_result" /\ dev.lazy /\ dev.script = <<>>)
        => (matched /\ hist.nInit = 1)

\* The buffer holds a line that starts with a recognized prefix: the prefix
\* stands at the start of the buffer or right after a line terminator.
HasRecognizedLine(b) ==
    \E i \in 1..Len(b) :
        /\ i = 1 \/ b[i - 1] \in {CR, LF}
        /\ \E prefix \in NMEA_PREFIXES :
              /\ i + Len(prefix) - 1 <= Len(b)
              /\ SubSeq(b, i, i + Len(prefix) - 1) = prefix

\* C4: a probe whose passive window has read a line that starts with a
\* recognized prefix reports matched = true, and nothing was written to the
\* link (no initialization sequence was started) between opening it and the
\* report of the match; the passive window goes on, or ends unmatched, only
\* while its buffer holds no such line.
C4_PassiveMatch ==
    /\ (pc = "sniff_for_gps" /\ phase = "passive")
          => (~HasRecognizedLine(buf) /\ hist.wlog = <<>> /\ hist.nInit = 0)
    /\ (pc = "initialize_receiver" /\ caller = "detect_gps")
          => ~HasRecognizedLine(sample)
    /\ (hist.matchPhase = "passive" /\ pc \in {"probe_result", "main"})
          => /\ matched
             /\ HasRecognizedLine(sample)
             /\ hist.wlog = <<>>
             /\ hist.nInit = 0
             /\ pc = "main" => result # "None"

\* A passive match on a sentence that came after other bytes has been reported.
C4_Witness ==
    /\ pc = "main"
    /\ hist.matchPhase = "passive"
    /\ result # "None"
    /\ sample = OK_cr \o LF_GGA

\* The numbers of the set S in ascending order.
RECURSIVE Ascending(_)
Ascending(S) ==
    IF S = {} THEN <<>>
    ELSE LET least == CHOOSE x \in S : \A y \in S : x <= y
         IN  <<least>> \o Ascending(S \ {least})

Range(q) == {q[i] : i \in 1..Len(q)}

\* The order of the (path, baud) combinations: /dev/ttyUSB* then /dev/ttyACM*,
\* paths ascending within a pattern, and six baud rates for each path.
ExpectedOrder(g) ==
    LET bauds == <<115200, 57600, 38400, 19200, 9600, 4800>>
        usb == Ascending(Range(g[1]))
        acm == Ascending(Range(g[2]))
        paths == [i \in 1..(Len(usb) + Len(acm)) |->
                    IF i <= Len(usb) THEN <<"/dev/ttyUSB", usb[i]>>
                    ELSE <<"/dev/ttyACM", acm[i - Len(usb)]>>]
    IN  [k \in 1..(6 * Len(paths)) |->
            <<paths[((k - 1) \div 6) + 1], bauds[((k - 1) % 6) + 1]>>]

\* C5: the combinations discovery has opened or tried to open are an initial
\* part of the one deterministic order; at most one probe matches, it is the
\* last combination tried (no later one is opened or probed after it, all
\* earlier ones were tried and did not match) and it is the one returned;
\* discovery returns no device only after it tried every combination.
C5_DiscoveryOrder ==
    /\ IsPrefix(hist.probed, ExpectedOrder(globs))
    /\ Len(hist.matches) <= 1
    /\ hist.matches # <<>> =>
          /\ hist.matches[1] = Len(hist.probed)
          /\ (prog = "usb_gps_monitor" /\ pc = "main") =>
                /\ result # "None"
                /\ <<result[1], result[2]>> = ExpectedOrder(globs)[hist.matches[1]]
    /\ (prog = "usb_gps_monitor" /\ pc = "main" /\ hist.matches = <<>>) =>
          /\ result = "None"
          /\ hist.probed = ExpectedOrder(globs)

\* Discovery returned /dev/ttyUSB1 although glob listed it before /dev/ttyUSB0,
\* whose six baud rates were all tried first.
C5_Witness ==
    /\ pc = "main"
    /\ globs[1] = <<1, 0>>
    /\ result # "None"
    /\ result[1] = <<"/dev/ttyUSB", 1>>
    /\ hist.matches = <<9>>

\* C6: discovery that ends with no match returns the "no device" value with no
\* descriptor left open and none closed twice, and so does the program that
\* then returns 1; between two probes no descriptor is open; with no candidate
\* path at all discovery cannot raise.
C6_NoMatchNoLeak ==
    /\ (prog = "usb_gps_monitor" /\ pc = "main" /\ result = "None")
          => (openFds = {} /\ ~hist.badClose /\ outcome = "running")
    /\ (prog = "usb_gps_monitor" /\ pc = "detect_gps")
          => (openFds = {} /\ ~hist.badClose)
    /\ (prog = "usb_gps_monitor" /\ outcome = "return 1")
          => (openFds = {} /\ ~hist.badClose)
    /\ (prog = "usb_gps_monitor" /\ iter_candidate_ports(globs) = <<>>)
          => outcome \in {"running", "return 1"}

\* Discovery returned no device after probes that had opened a port.
C6_Witness ==
    /\ prog = "usb_gps_monitor"
    /\ pc = "main"
    /\ result = "None"
    /\ fd # 0
    /\ Len(hist.probed) = 12

\* C7: a reply wait that is still going on (gps_init.read_response, the reply
\* loop of usb_gps_monitor.send_command) has no line terminator, neither \n nor
\* \r, in the buffer it has accumulated: the chunk that brought the first one
\* ended the wait.
C7_StopsAtFirstTerminator ==
    pc \in {"read_response", "command_reply"}
        => (~Contains(buf, LF) /\ ~Contains(buf, CR))

Waiting == pc \in {"read_response", "command_reply", "sniff_for_gps"}

\* C8: no bounded wait (read_response, the reply loop of send_command,
\* sniff_for_gps) has returned later than its deadline plus one poll slice, and
\* a wait that is going on ends, whatever the device delivers.
C8_WaitsTerminate == []~hist.late /\ (Waiting ~> ~Waiting)

\* A reply wait on a link that is readable but gives no bytes has run to its
\* deadline.
C8_Witness ==
    /\ pc = "command_reply"
    /\ dev.mode = "hup"
    /\ now >= COMMAND_TIMEOUT

\* The commands handed to the link so far are the first n of the sequence, in
\* order, each once.
SentFirst(n) == hist.wlog = SubSeq(cmds, 1, n)

\* Sending is strictly sequential and complete, whatever the replies: a command
\* is handed to the link when all commands before it and no other have been,
\* and after the wait for the reply to the one before it has ended in one of
\* the ways `ends`; while a reply is awaited the command it answers is the last
\* one handed over; a sequence that has been gone through was handed over
\* whole.
Sequential(ends) ==
    /\ pc \in {"send_commands", "send_command"} =>
          /\ SentFirst(ci - 1)
          /\ hist.lastWait \in IF ci = 1 THEN {"none"} ELSE ends
    /\ pc \in {"read_response", "command_reply"} =>
          /\ SentFirst(ci)
          /\ hist.lastWait = "waiting"
    /\ pc = "tcflush" => hist.wlog = cmds
    /\ (prog = "gps_init" /\ outcome = "return 0" /\ ~args.list_only) =>
          /\ hist.wlog = load_command_sequence(args.files, args.extra)
          /\ hist.lastWait \in ends
    /\ (pc = "stream_sentences" \/ (pc = "sniff_for_gps" /\ phase = "active")) =>
          hist.wlog = INIT_COMMANDS

\* C9 as stated: the commands of a sequence are written in order, each once,
\* and the next one only after the reply wait for the one before it has ended
\* by a line terminator or by its timeout; an empty reply neither aborts the
\* sequence nor makes a command skipped or sent again.
C9_EndedByLineOrTimeout == Sequential({"line", "timeout"})

\* C9, amended: as above, and in usb_gps_monitor the reply wait may also have
\* ended by a read error, or have been left out because the write of the
\* command failed; the monitor logs either and goes on with the next command.
C9_Sequential ==
    IF prog = "usb_gps_monitor"
    THEN Sequential({"line", "timeout", "read error", "write failed"})
    ELSE Sequential({"line", "timeout"})

\* gps_init has sent three commands and returned 0 although the last reply
\* wait ran into its timeout.
C9_Witness ==
    /\ prog = "gps_init"
    /\ outcome = "return 0"
    /\ Len(hist.wlog) = 3
    /\ hist.lastWait = "timeout"

\* The positions of the entries of s that differ from the entry before them.
RunStarts(s) == {i \in 1..Len(s) : i = 1 \/ s[i] # s[i - 1]}

\* s with each maximal run of equal consecutive entries collapsed to one entry.
Collapse(s) ==
    LET at == Ascending(RunStarts(s)) IN [k \in 1..Len(at) |-> s[at[k]]]

\* C10: the sequence load_command_sequence returns (the one gps_init goes on
\* with, or lists) is its input - the command files in order, then the extra
\* commands - with each maximal run of equal consecutive entries collapsed to
\* one; entries that are equal but not adjacent are kept, so [A, A, B, A] gives
\* [A, B, A]; loading the result again gives the same result.
C10_AdjacentDedup ==
    LET input == Concat(args.files) \o args.extra
        loaded == load_command_sequence(args.files, args.extra)
        A == "SAVECONFIG"
        B == "LOG GPRMC ONTIME 1"
    IN  /\ pc = "open_serial" => cmds = Collapse(input)
        /\ (pc = "exit" /\ outcome = "return 0") => hist.listed = Collapse(input)
        /\ (pc = "exit" /\ outcome = "return 1") => Collapse(input) = <<>>
        /\ pc # "main" =>
              /\ load_command_sequence(<<loaded>>, <<>>) = loaded
              /\ load_command_sequence(<<>>, loaded) = loaded
              /\ input = <<A, A, B, A>> => loaded = <<A, B, A>>

\* The files hold A, A and B, A: gps_init goes on with A, B, A.
C10_Witness ==
    /\ pc = "open_serial"
    /\ args.files = << <<"SAVECONFIG", "SAVECONFIG">>,
                       <<"LOG GPRMC ONTIME 1", "SAVECONFIG">> >>
    /\ args.extra = <<>>
    /\ cmds = <<"SAVECONFIG", "LOG GPRMC ONTIME 1", "SAVECONFIG">>

\* C11: the commands sent to a receiver so far never hold the same command
\* twice in a row, whatever extra commands the user gave: for the sequence
\* gps_init sends (files, then extras) and for the one gps_run sends (the
\* default commands, then the extras).
C11_NoConsecutiveDuplicates ==
    \A i \in 1..(Len(hist.wlog) - 1) : hist.wlog[i] # hist.wlog[i + 1]

\* The positions of a chunk where a non-empty line begins: a byte that is no
\* line terminator, at the start of the chunk or right after a terminator.
LineStarts(c) ==
    {i \in 1..Len(c) : c[i] \notin {CR, LF} /\ (i = 1 \/ c[i - 1] \in {CR, LF})}

\* The last position of the line that begins at position i.
LineEnd(c, i) ==
    CHOOSE j \in i..Len(c) :
        /\ \A k \in i..j : c[k] \notin {CR, LF}
        /\ j = Len(c) \/ c[j + 1] \in {CR, LF}

\* The non-empty lines of a chunk, in order.
LinesOf(c) ==
    LET at == Ascending(LineStarts(c))
    IN  [k \in 1..Len(at) |-> SubSeq(c, at[k], LineEnd(c, at[k]))]

\* What a stream loop has to emit for the chunks it read: chunk by chunk, the
\* non-empty lines in order, with the filter only those beginning with $ or <.
RECURSIVE Emitted(_, _)
Emitted(chunks, filtered) ==
    IF chunks = <<>> THEN <<>>
    ELSE SelectSeq(LinesOf(Head(chunks)),
                   LAMBDA line : ~filtered \/ line[1] \in {"$", "<"})
         \o Emitted(Tail(chunks), filtered)

\* C12: what the stream loop has emitted is, chunk by chunk in arrival order,
\* each non-empty line of the chunk once - all of them without the NMEA-only
\* filter, with it exactly those that begin with "$" or "<"; no empty line is
\* emitted.
C12_StreamFilter ==
    /\ printed = Emitted(hist.stream, prog = "gps_run" /\ args.nmea_only)
    /\ \A k \in 1..Len(printed) : printed[k] # <<>>

\* gps_run without the filter has read one chunk with two sentences and
\* emitted two lines.
C12_Witness ==
    /\ prog = "gps_run"
    /\ ~args.nmea_only
    /\ hist.stream = <<GGA_RMC>>
    /\ printed = << <<"$", "G", "P", "G", "G", "A">>, <<"$", "G", "P", "R", "M", "C">> >>

Streaming == pc \in {"stream_loop", "stream_output"}

\* C13: a stream loop (stream_output, stream_sentences) is left only on a user
\* interrupt or an error, never on silence or a read of zero bytes, which lead
\* to the next tick; when it is left the descriptor has been closed, once, and
\* nothing is emitted on or after that step; after an interrupt main returns 0.
C13_StreamCancel ==
    /\ [](hist.stop.at \in {"stream_loop", "stream_output"} =>
            /\ pc = "exit"
            /\ hist.stop.ev \in {"intr", "readerr", "selerr"}
            /\ openFds = {}
            /\ ~hist.badClose
            /\ hist.stop.ev = "intr" => outcome = "return 0")
    /\ [][Streaming =>
            \/ pc' = pc /\ outcome' = "running" /\ openFds' = openFds
            \/ pc' = "exit" /\ hist'.stop.at = pc /\ printed' = printed]_vars

\* gps_run was interrupted in its stream loop after it had read data.
C13_Witness ==
    /\ pc = "exit"
    /\ hist.stop = [at |-> "stream_output", ev |-> "intr"]
    /\ hist.stream # <<>>
    /\ outcome = "return 0"

\* C14: a read error on the link is never fatal: no run has ended with the
\* OSError of a read - not in the reply wait after a command, not in the sniff
\* window of a probe, not in a streaming tick.
C14_ReadErrorNotFatal == ~(outcome = "OSError" /\ hist.stop.ev = "readerr")

\* C15: the configuration step of either open_serial ends in one of two ways.
\* It succeeds, and the caller goes on with the open descriptor (for gps_init
\* and gps_run only with a supported baud rate).  Or it fails - unsupported
\* baud rate or terminal-attribute error - and then the descriptor just opened
\* has been closed, once, the caller holds no descriptor, and it sees the
\* failure: discovery goes on without a link, gps_init and gps_run end with
\* the error.
C15_NoLeakOnConfigureFailure ==
    [][pc = "configure_port" =>
        \/ /\ pc' \in {"sniff_for_gps", "send_commands", "stream_output"}
           /\ fd' = fd
           /\ fd \in openFds'
           /\ prog # "usb_gps_monitor" =>
                 args.baud \in {4800, 9600, 19200, 38400, 57600, 115200}
        \/ /\ pc' \in {"detect_gps", "exit"}
           /\ fd \notin openFds'
           /\ fd' = 0
           /\ ~hist'.badClose
           /\ outcome' \in IF prog = "usb_gps_monitor" THEN {"running"}
                           ELSE {"return 1", "termios.error"}]_vars

\* gps_init ended with the terminal-attribute error of its configuration step
\* and holds no descriptor.
C15_Witness ==
    /\ prog = "gps_init"
    /\ outcome = "termios.error"
    /\ openFds = {}

\* The step is discovery's answer to a candidate that could not be opened or
\* configured.
FailedAttempt ==
    /\ prog = "usb_gps_monitor"
    /\ pc \in {"detect_gps", "configure_port"}
    /\ pi <= Len(iter_candidate_ports(globs))
    /\ pc' = "detect_gps"

\* C16: when a candidate cannot be opened or configured, discovery stays
\* running (no error reaches its caller), has written nothing to and read
\* nothing from the candidate, holds no descriptor for it, counts no match, and
\* stands at the next (path, baud) combination in order: the next baud rate of
\* the same path, or the first baud rate of the next path.
C16_FailureAbsorbed ==
    [][FailedAttempt =>
        /\ outcome' = "running"
        /\ hist'.wlog = hist.wlog
        /\ hist'.got = hist.got
        /\ buf' = buf
        /\ openFds' = {}
        /\ hist'.matches = hist.matches
        /\ result' = result
        /\ <<pi', bi'>> = IF bi < 6 THEN <<pi, bi + 1>> ELSE <<pi + 1, 1>>]_vars

\* Discovery stands at the second baud rate of the first path, whose first baud
\* rate gave no link.
C16_Witness ==
    /\ pc = "detect_gps"
    /\ pi = 1
    /\ bi = 2
    /\ fd = 0
    /\ Len(hist.probed) = 1
    /\ outcome = "running"

\* detect_gps is running: the monitor has neither returned from it nor ended.
InDiscovery ==
    /\ prog = "usb_gps_monitor"
    /\ caller = "detect_gps"
    /\ pc \notin {"main", "exit", "stream_sentences", "stream_loop"}

WindowReturned ==
    \/ pc = "probe_result"
    \/ pc = "initialize_receiver" /\ caller = "detect_gps"

\* C18: while a sniff window goes on, the bytes it has accumulated are the
\* chunks it read, in order, and no line of them starts with a recognized
\* prefix; when it has returned, the bytes it returned are exactly the chunks
\* read in the window, in order, it returned matched = true exactly if some
\* line of them starts with a recognized prefix, and then no line did before
\* the last chunk was read (the match was reported on the very read that
\* completed it, also when prefix or line came split over two reads).
C18_SniffOnGrowingBuffer ==
    /\ pc = "sniff_for_gps" =>
          /\ buf = Concat(hist.got)
          /\ ~HasRecognizedLine(buf)
    /\ WindowReturned =>
          /\ sample = Concat(hist.got)
          /\ matched <=> HasRecognizedLine(sample)
          /\ matched =>
                ~HasRecognizedLine(Concat(SubSeq(hist.got, 1, Len(hist.got) - 1)))

\* A window matched on a sentence whose prefix came split over two reads.
C18_Witness ==
    /\ pc = "probe_result"
    /\ matched
    /\ hist.got = <<RMC_head, RMC_tail>>
    /\ sample = RMC

\* C19: the monitor never holds more than one open descriptor; while detect_gps
\* runs, the only descriptor that can be open is the one of the probe under
\* way, and none is open between two probes; a descriptor is opened only when
\* none is open; and when detect_gps has returned a match, exactly one
\* descriptor is open: the one it returned, for the combination that matched.
C19_SingleOwnership ==
    /\ [](prog = "usb_gps_monitor" =>
            /\ Cardinality(openFds) <= 1
            /\ InDiscovery => openFds \in { {}, {fd} }
            /\ (InDiscovery /\ pc = "detect_gps") => openFds = {}
            /\ (pc = "main" /\ result # "None") =>
                  /\ openFds = {result[3]}
                  /\ result[3] = fd
                  /\ <<result[1], result[2]>> = hist.probed[Len(hist.probed)])
    /\ [][(prog = "usb_gps_monitor" /\ ~(openFds' \subseteq openFds)) =>
              (openFds = {} /\ pc = "detect_gps")]_vars

\* detect_gps returned the descriptor of the eighth combination it tried; it is
\* the only one open.
C19_Witness ==
    /\ prog = "usb_gps_monitor"
    /\ pc = "main"
    /\ result # "None"
    /\ hist.matches = <<8>>
    /\ openFds = {fd}

\* C20: every line a stream loop has emitted is one whole line of the bytes it
\* has read, taken as one stream: it begins where a line of the stream begins
\* and ends where that line ends, also when the bytes of the line came in two
\* consecutive reads.
C20_WholeLines ==
    LET bytes == Concat(hist.stream)
    IN  \A k \in 1..Len(printed) :
            \E i \in LineStarts(bytes) :
                printed[k] = SubSeq(bytes, i, LineEnd(bytes, i))

====
